---- MODULE Spec2Model ----
(***************************************************************************)
(* LINE x Ollama webhook relay (src/main.py).                              *)
(*                                                                         *)
(* The model follows line_callback from one suspension point (await) to    *)
(* the next.  The process runs on one asyncio event loop, so the code      *)
(* between two awaits of a handler is atomic with respect to every other   *)
(* handler; `running` names the handler that holds the loop.               *)
(*                                                                         *)
(* Strings are modelled as sequences of tokens.  A token stands for a      *)
(* fixed run of characters ("th:leuak" for the Thai word of line 359,      *)
(* " " for one blank); no token is a prefix of, or a concatenation of,     *)
(* other tokens.  strip, lower, startswith, replace and split act on the   *)
(* token sequence as the Python methods act on the characters.             *)
(***************************************************************************)
EXTENDS Integers, Sequences, FiniteSets, TLC

\* ---- bounds ------------------------------------------------------------
\* events taken from one delivery's batch
MaxEvents == 2
\* characters of a reply drawn from TextChars
MaxLen == 4
\* pieces of a reply drawn from MarkupUnits
MaxUnits == 5
\* the length a reply would be cut at, were there a cap
MaxChars == 3

\* ---- personas (lines 58-69) ---------------------------------------------
PersonaKeys ==
    {"general", "teacher", "consultant", "programmer", "doctor",
     "chef", "counselor", "fitness", "travel", "comedian"}

\* The display name and the style directive of a persona are named by its key.
SYSTEM_PROMPTS == [k \in PersonaKeys |-> [name |-> k, prompt |-> k]]

DefaultPersona == "general"

\* the one backend ask_ollama posts to (line 269)
PROVIDERS == <<"ollama">>

\* ---- strings as token sequences -----------------------------------------
SP == " "

\* str.lower() on one token: the tokens that contain upper-case letters
LowerTok(t) ==
    CASE t = "AI"      -> "ai"
      [] t = "BMI"     -> "bmi"
      [] t = "Menu"    -> "menu"
      [] t = "QR"      -> "qr"
      [] t = "Teacher" -> "teacher"
      [] OTHER         -> t

Lower(s) == [i \in DOMAIN s |-> LowerTok(s[i])]

RECURSIVE LStrip(_)
LStrip(s) == IF s # <<>> /\ Head(s) = SP THEN LStrip(Tail(s)) ELSE s

RECURSIVE RStrip(_)
RStrip(s) ==
    IF s # <<>> /\ s[Len(s)] = SP THEN RStrip(SubSeq(s, 1, Len(s) - 1)) ELSE s

Strip(s) == RStrip(LStrip(s))

StartsWith(s, p) == Len(s) >= Len(p) /\ SubSeq(s, 1, Len(p)) = p

\* str.replace(tok, ""): every occurrence goes
Replace(s, tok) == SelectSeq(s, LAMBDA t : t # tok)

\* str.split(): the maximal blank-free runs
RECURSIVE SplitFrom(_, _, _)
SplitFrom(s, acc, part) ==
    IF s = <<>>
    THEN IF part = <<>> THEN acc ELSE Append(acc, part)
    ELSE IF Head(s) = SP
         THEN SplitFrom(Tail(s), IF part = <<>> THEN acc ELSE Append(acc, part), <<>>)
         ELSE SplitFrom(Tail(s), acc, Append(part, Head(s)))

Split(s) == SplitFrom(s, <<>>, <<>>)

\* float(): the one-token parts that Python parses, with their values
NumValue ==
    [t \in {"-5", "0", "5", "8", "30", "70", "100", "175", "1000000"} |->
        CASE t = "-5" -> 0 - 5
          [] t = "0" -> 0 [] t = "5" -> 5 [] t = "8" -> 8 [] t = "30" -> 30
          [] t = "70" -> 70 [] t = "100" -> 100 [] t = "175" -> 175
          [] OTHER -> 1000000]

IsFloat(part) == Len(part) = 1 /\ part[1] \in DOMAIN NumValue
\* str.isdigit(): digit characters only, so no sign; "sup2" is the superscript
\* two (U+00B2), a digit character that is no decimal digit
IsDigit(part) == Len(part) = 1 /\ part[1] \in (DOMAIN NumValue \ {"-5"}) \cup {"sup2"}
\* int() takes the decimal numerals and raises ValueError on anything else
IsInt(part) == IsFloat(part)
Float(part) == NumValue[part[1]]

\* the tokens that begin with the character '#'
HashTokens == {"#FF5733", "#zz"}

\* ---- reply texts ----------------------------------------------------------
\* A reply text is named by the literal of the source it comes from and the
\* value formatted into it.
Msg(id, arg) == [id |-> id, arg |-> arg]

APOLOGY_HTTP == Msg("apology_unavailable", "")    \* line 294
APOLOGY_EMPTY == Msg("apology_no_answer", "")     \* line 306

\* ---- tools (lines 96-175) -------------------------------------------------
\* calculate_bmi_text: bmi = w / (h/100)^2 compared with 18.5, 25 and 30;
\* a zero height raises ZeroDivisionError, which the function catches.
calculate_bmi_text(w, h) ==
    IF h = 0 THEN Msg("bmi_format_error", "")
    ELSE IF 2 * 10000 * w < 37 * h * h THEN Msg("bmi", "under")
    ELSE IF 10000 * w < 25 * h * h THEN Msg("bmi", "normal")
    ELSE IF 10000 * w < 30 * h * h THEN Msg("bmi", "over")
    ELSE Msg("bmi", "obese")

ConvKeys ==
    {<<"cm", "m">>, <<"m", "cm">>, <<"km", "m">>, <<"m", "km">>,
     <<"inch", "cm">>, <<"cm", "inch">>, <<"kg", "g">>, <<"g", "kg">>,
     <<"lb", "kg">>, <<"kg", "lb">>, <<"c", "f">>, <<"f", "c">>}

convert_units_text(value, frm, to) ==
    IF Len(frm) = 1 /\ Len(to) = 1 /\ <<frm[1], to[1]>> \in ConvKeys
    THEN Msg("convert", "ok")
    ELSE Msg("convert_unsupported", "")

\* loan_calc_text: months = int(years*12); both formulas divide by zero when
\* months = 0, and the function catches it.
loan_calc_text(principal, rate, years) ==
    IF years * 12 = 0 THEN Msg("loan_format_error", "") ELSE Msg("loan", "ok")

\* generate_password_text: the length is clamped to 4..50
generate_password_text(length) ==
    Msg("password", IF length < 4 THEN "len4" ELSE IF length > 50 THEN "len50" ELSE "len")

\* ---- sessions (lines 70, 239-241, 335-336) --------------------------------
NoSession == "none"

\* mutant: no session is created
EnsureSession_Never(sess, uid) == sess

\* mutant: the default session is stored without the membership test
EnsureSession_Reset(sess, uid) == [sess EXCEPT ![uid] = DefaultPersona]

\* lines 335-336
EnsureSession(sess, uid) ==
    IF sess[uid] = NoSession THEN [sess EXCEPT ![uid] = DefaultPersona] ELSE sess

get_current_system_info(sess, uid) ==
    LET key == IF sess[uid] = NoSession THEN DefaultPersona ELSE sess[uid]
    IN  IF key \in PersonaKeys THEN SYSTEM_PROMPTS[key] ELSE SYSTEM_PROMPTS[DefaultPersona]

\* mutant: the selection is stored for everybody
SetPersona_AllUsers(sess, uid, key) == [u \in DOMAIN sess |-> key]

\* line 362
SetPersona(sess, uid, key) == [sess EXCEPT ![uid] = key]

\* ---- the dispatcher's text branches (lines 339-457) ------------------------
\* What one text event does up to its first await: the sessions it leaves, the
\* branch taken (cls) and the await it stops at:
\*   "send"  await reply_text(msg); guarded = the call stands inside a try
\*           whose handler sends `fallback`
\*   "ask"   await ask_ollama(user_text, prompt)
\*   "rate"  await get_exchange_rate_text()
Step(sess, cls, effect, msg, guarded, fallback) ==
    [sess |-> sess, cls |-> cls, effect |-> effect, msg |-> msg,
     guarded |-> guarded, fallback |-> fallback, prompt |-> ""]

NoMsg == Msg("", "")

Send(sess, cls, msg) == Step(sess, cls, "send", msg, FALSE, NoMsg)

\* mutant: the key is stored without the catalog lookup
SelectBranch_Unchecked(sess, uid, user_text) ==
    LET key == Strip(Replace(user_text, "th:leuak"))
    IN  IF Len(key) = 1
        THEN Step(SetPersona(sess, uid, key[1]), "select_known", "send",
                  Msg("persona_changed", key[1]), FALSE, NoMsg)
        ELSE Step(sess, "select_unknown", "send", Msg("persona_unknown", ""), FALSE, NoMsg)

\* mutant: the key is lower-cased before the lookup
SelectBranch_Lower(sess, uid, user_text) ==
    LET key == Lower(Strip(Replace(user_text, "th:leuak")))
    IN  IF Len(key) = 1 /\ key[1] \in PersonaKeys
        THEN Step(SetPersona(sess, uid, key[1]), "select_known", "send",
                  Msg("persona_changed", SYSTEM_PROMPTS[key[1]].name), FALSE, NoMsg)
        ELSE Step(sess, "select_unknown", "send", Msg("persona_unknown", ""), FALSE, NoMsg)

SelectBranch(sess, uid, user_text) ==
    LET key == Strip(Replace(user_text, "th:leuak"))
    IN  IF Len(key) = 1 /\ key[1] \in PersonaKeys
        THEN Send(SetPersona(sess, uid, key[1]), "select_known",
                  Msg("persona_changed", SYSTEM_PROMPTS[key[1]].name))
        ELSE Send(sess, "select_unknown", Msg("persona_unknown", ""))

BmiBranch(sess, user_text) ==
    LET parts == Split(user_text)
    IN  IF Len(parts) = 3
        THEN IF IsFloat(parts[2]) /\ IsFloat(parts[3])
             THEN Step(sess, "bmi", "send",
                       calculate_bmi_text(Float(parts[2]), Float(parts[3])),
                       TRUE, Msg("bmi_format_error", ""))
             ELSE Send(sess, "bmi", Msg("bmi_format_error", ""))
        ELSE Send(sess, "bmi", Msg("bmi_usage", ""))

ConvertBranch(sess, user_text) ==
    LET parts == Split(user_text)
    IN  IF Len(parts) >= 4
        THEN IF IsFloat(parts[2])
             THEN Step(sess, "convert", "send",
                       convert_units_text(Float(parts[2]), parts[3], parts[4]),
                       TRUE, Msg("format_error", ""))
             ELSE Send(sess, "convert", Msg("format_error", ""))
        ELSE Send(sess, "convert", Msg("convert_usage", ""))

LoanBranch(sess, user_text) ==
    LET parts == Split(user_text)
    IN  IF Len(parts) = 4
        THEN IF IsFloat(parts[2]) /\ IsFloat(parts[3]) /\ IsFloat(parts[4])
             THEN Step(sess, "loan", "send",
                       loan_calc_text(Float(parts[2]), Float(parts[3]), Float(parts[4])),
                       TRUE, Msg("format_error", ""))
             ELSE Send(sess, "loan", Msg("format_error", ""))
        ELSE Send(sess, "loan", Msg("loan_usage", ""))

PasswordBranch(sess, user_text) ==
    LET parts == Split(user_text)
    IN  IF Len(parts) > 1 /\ IsDigit(parts[2])
        THEN IF IsInt(parts[2])
             THEN Send(sess, "password", generate_password_text(Float(parts[2])))
             ELSE \* line 401: int() raises outside any try
                  Step(sess, "raised", "raise", NoMsg, FALSE, NoMsg)
        ELSE Send(sess, "password", generate_password_text(12))

\* lines 339-457, first match wins
DispatchText(sess, uid, text) ==
    LET user_text == Strip(text)
        lower == Lower(user_text)
        info == get_current_system_info(sess, uid)
    IN  IF lower \in {<<"ai">>, <<"th:chat">>, <<"chat">>}
        THEN Send(sess, "chat", Msg("back_to_chat", info.name))
        ELSE IF lower \in {<<"th:menu">>, <<"menu">>, <<"th:leuak">>, <<"th:plian">>}
        THEN Send(sess, "persona_menu", Msg("persona_list", ""))
        ELSE IF lower \in {<<"th:tools">>, <<"tools">>, <<"th:functions">>,
                           <<"functions">>, <<"tool">>, <<"utils">>}
        THEN Send(sess, "tools_menu", Msg("tool_list", ""))
        ELSE IF StartsWith(user_text, <<"th:leuak">>)
        THEN SelectBranch(sess, uid, user_text)
        ELSE IF lower \in {<<"help">>, <<"th:help">>, <<"th:status">>, <<"status">>}
        THEN Send(sess, "help", Msg("status", info.name))
        ELSE IF lower = <<"th:rate">>
        THEN Step(sess, "rate", "rate", NoMsg, FALSE, NoMsg)
        ELSE IF lower = <<"th:time">>
        THEN Send(sess, "time", Msg("thai_time", ""))
        ELSE IF lower \in {<<"th:motivate">>, <<"motivate">>}
        THEN Send(sess, "motivate", Msg("quote", ""))
        ELSE IF StartsWith(lower, <<"th:password">>)
        THEN PasswordBranch(sess, user_text)
        ELSE IF StartsWith(lower, <<"bmi">>)
        THEN BmiBranch(sess, user_text)
        ELSE IF StartsWith(lower, <<"th:convert">>)
        THEN ConvertBranch(sess, user_text)
        ELSE IF StartsWith(lower, <<"qr", SP>>)
        THEN Send(sess, "qr", Msg("qr", ""))
        ELSE IF StartsWith(lower, <<"th:color", SP>>) \/ (user_text # <<>> /\ user_text[1] \in HashTokens)
        THEN Send(sess, "color", Msg("color", ""))
        ELSE IF StartsWith(lower, <<"th:loan">>)
        THEN LoanBranch(sess, user_text)
        ELSE [Step(sess, "free", "ask", NoMsg, FALSE, NoMsg) EXCEPT !.prompt = info.prompt]

\* ---- the webhook's inputs --------------------------------------------------
\* Handler slots.  Under Spec the deliveries follow one another in slot h1, the
\* sessions living on from one to the next; under SpecRace two deliveries are in
\* flight at once (every race is a race of two) and carry the events of
\* RaceEvents.
Handlers == {"h1", "h2"}
Nobody == "nobody"

\* event sources: a user (source.userId present) and two groups whose events
\* carry no userId
Sources == {"U1", "G1", "G2"}
HasUserId == {"U1"}
UserIds == {"U1", "anonymous"}

\* line 333: source.get("userId", "anonymous")
UserIdOf(source) == IF source \in HasUserId THEN source ELSE "anonymous"

NoneText == <<"<None>">>         \* "text": null
MissingText == <<"<missing>">>   \* no "text" key

Texts ==
    { <<>>, <<"hello">>, <<"AI">>, <<"menu">>, <<"th:leuak">>, <<"tools">>,
      <<"th:leuak", "teacher">>, <<"th:leuak", SP, "chef">>,
      <<"th:leuak", "bogus">>, <<"th:leuak", "Teacher">>,
      <<"status">>, <<"th:rate">>, <<"th:time">>, <<"motivate">>,
      <<"th:password", SP, "8">>, <<"th:password", SP, "sup2">>,
      <<"BMI", SP, "70", SP, "175">>, <<"BMI", SP, "70", SP, "0">>,
      <<"BMI", SP, "70", SP, "abc">>, <<"BMI">>,
      <<"th:convert", SP, "100", SP, "cm", SP, "m">>,
      <<"QR", SP, "hello">>, <<"#FF5733">>,
      <<"th:loan", SP, "1000000", SP, "5", SP, "30">>,
      <<"th:loan", SP, "1000000", SP, "5", SP, "0">>, <<"th:loan">> }

Event(type, source, mtype, text) ==
    [type |-> type, source |-> source, mtype |-> mtype, text |-> text]

Events ==
    { Event("message", src, "text", t) :
        src \in Sources, t \in Texts \cup {NoneText, MissingText} }
    \cup { Event("message", src, "image", <<>>) : src \in Sources }
    \cup { Event(ty, src, "", <<>>) :
             ty \in {"follow", "join", "unfollow"}, src \in Sources }

\* the events of the two-handler scenario: what touches a session
RaceEvents ==
    { Event("message", src, "text", t) :
        src \in {"U1"},
        t \in {<<"hello">>, <<"th:leuak", "teacher">>, <<"status">>, <<"th:rate">>} }
    \cup { Event("follow", "U1", "", <<>>) }

\* ---- the signature (lines 52-55) -------------------------------------------
LINE_CHANNEL_SECRET == "secret"
Mac(key, body) == <<"hmac", key, body>>
NoHeader == <<"absent">>
EmptyHeader == <<>>

Bodies == {"events_json", "json_array", "not_json"}

SignatureHeaders ==
    {NoHeader, EmptyHeader}
    \cup { Mac(k, b) : k \in {LINE_CHANNEL_SECRET, "other"}, b \in Bodies }

\* mutant: the digest is compared without the body it was computed over
verify_line_signature_KeyOnly(body, signature, secret) ==
    Len(signature) = 3 /\ signature[2] = secret

verify_line_signature(body, signature, secret) ==
    Mac(secret, body) = (IF signature = NoHeader THEN EmptyHeader ELSE signature)

\* ---- the provider (lines 268-308) ------------------------------------------
\* What the POST to /api/chat can come back with:
\*   ok          200, a JSON object with a non-empty answer
\*   no_content  200, a JSON object with no answer in it
\*   unavailable 503 (model loading), rejected 4xx: raise_for_status raises
\*   transport   connect error or timeout
\*   bad_json    200, a body that is not JSON: r.json() raises ValueError
\*   non_object  200, JSON that is no object: data.get raises AttributeError
ProviderOutcomes ==
    {"ok", "no_content", "unavailable", "rejected", "transport", "bad_json", "non_object"}

Returned(msg) == [raised |-> FALSE, text |-> msg]
Raised == [raised |-> TRUE, text |-> NoMsg]

\* lines 286-308: only httpx.HTTPError is caught
ask_ollama(outcome) ==
    IF outcome \in {"unavailable", "rejected", "transport"} THEN Returned(APOLOGY_HTTP)
    ELSE IF outcome \in {"bad_json", "non_object"} THEN Raised
    ELSE IF outcome = "no_content" THEN Returned(APOLOGY_EMPTY)
    ELSE Returned(Msg("ai_answer", ""))

\* what the POST to the LINE reply endpoint can come back with (lines 186-189):
\* 200, another status (printed), or an httpx exception, which is not caught
SendOutcomes == {"ok", "rejected", "error"}

\* ---- the post-processor (lines 244-265) --------------------------------------
\* Here a reply is a sequence of characters.  "a" is a letter, "NL", "TAB" and
\* "CR" are the control characters, "FC" is a full-width comma (U+FF0C or
\* U+3001), "FS" the full-width stop (U+3002), "ELL" the ellipsis.  In the two
\* markers "t" stands for the letters of "think", in either case (the pattern
\* ignores case); the suffix of line 263 is its first letters, "j", and its
\* run of final vowels, "A".
Whitespace == {" ", "TAB", "NL", "CR"}
Blank == {" ", "TAB"}
Punct == {",", ".", "!", "?"}
RStripChars == {"!", "?", ".", " ", "NL", "CR", "TAB"}
OPEN == <<"<", "t", ">">>
CLOSE == <<"<", "/", "t", ">">>
SUFFIX == <<"j", "A">>

\* str.lstrip(chars), str.rstrip(chars), str.strip()
RECURSIVE lstrip(_, _)
lstrip(s, chars) == IF s # <<>> /\ Head(s) \in chars THEN lstrip(Tail(s), chars) ELSE s

RECURSIVE rstrip(_, _)
rstrip(s, chars) ==
    IF s # <<>> /\ s[Len(s)] \in chars THEN rstrip(SubSeq(s, 1, Len(s) - 1), chars) ELSE s

strip(s) == rstrip(lstrip(s, Whitespace), Whitespace)

\* str.endswith(p), and p found in s at position i
endswith(s, p) == Len(s) >= Len(p) /\ SubSeq(s, Len(s) - Len(p) + 1, Len(s)) = p
At(s, i, p) == i >= 1 /\ i + Len(p) - 1 <= Len(s) /\ SubSeq(s, i, i + Len(p) - 1) = p

\* the length of the longest run of characters of cs that starts at i
RECURSIVE RunLen(_, _, _)
RunLen(s, i, cs) == IF i <= Len(s) /\ s[i] \in cs THEN 1 + RunLen(s, i + 1, cs) ELSE 0

\* the first position from i on where the close marker stands, 0 when none
RECURSIVE FindClose(_, _)
FindClose(s, i) ==
    IF i + Len(CLOSE) - 1 > Len(s) THEN 0
    ELSE IF At(s, i, CLOSE) THEN i ELSE FindClose(s, i + 1)

\* mutant: re.sub(..., count=1), only the first segment goes
RECURSIVE RemoveFrom_First(_, _)
RemoveFrom_First(s, i) ==
    IF i > Len(s) THEN <<>>
    ELSE IF At(s, i, OPEN) /\ FindClose(s, i + Len(OPEN)) # 0
         THEN SubSeq(s, FindClose(s, i + Len(OPEN)) + Len(CLOSE), Len(s))
         ELSE <<s[i]>> \o RemoveFrom_First(s, i + 1)

\* lines 244-247: RE_THINK.sub("", s), one pass from the left: where an open
\* marker stands and a close marker follows, the text up to the end of the
\* nearest close marker goes and the scan goes on behind it
RECURSIVE RemoveFrom(_, _)
RemoveFrom(s, i) ==
    IF i > Len(s) THEN <<>>
    ELSE IF At(s, i, OPEN) /\ FindClose(s, i + Len(OPEN)) # 0
         THEN RemoveFrom(s, FindClose(s, i + Len(OPEN)) + Len(CLOSE))
         ELSE <<s[i]>> \o RemoveFrom(s, i + 1)

_remove_reasoning(s) == RemoveFrom(s, 1)

\* lines 251-252: a run of at least `least` characters of cs becomes `by`
RECURSIVE CollapseFrom(_, _, _, _, _)
CollapseFrom(s, i, cs, least, by) ==
    IF i > Len(s) THEN <<>>
    ELSE IF RunLen(s, i, cs) >= least
         THEN by \o CollapseFrom(s, i + RunLen(s, i, cs), cs, least, by)
         ELSE <<s[i]>> \o CollapseFrom(s, i + 1, cs, least, by)

\* lines 253-254
Halfwidth(s) ==
    [i \in DOMAIN s |-> IF s[i] = "FC" THEN "," ELSE IF s[i] = "FS" THEN "." ELSE s[i]]

\* line 255: a punctuation mark repeated is written once
RECURSIVE SqueezeFrom(_, _)
SqueezeFrom(s, i) ==
    IF i > Len(s) THEN <<>>
    ELSE IF s[i] \in Punct
         THEN <<s[i]>> \o SqueezeFrom(s, i + RunLen(s, i, {s[i]}))
         ELSE <<s[i]>> \o SqueezeFrom(s, i + 1)

\* line 256: white space in front of a punctuation mark goes
RECURSIVE CloseUpFrom(_, _)
CloseUpFrom(s, i) ==
    IF i > Len(s) THEN <<>>
    ELSE LET r == RunLen(s, i, Whitespace)
         IN  IF r >= 1 /\ i + r <= Len(s) /\ s[i + r] \in Punct
             THEN CloseUpFrom(s, i + r)
             ELSE <<s[i]>> \o CloseUpFrom(s, i + 1)

\* line 257: a blank goes between a punctuation mark and the character behind
\* it, pair by pair from the left
RECURSIVE SpaceOutFrom(_, _)
SpaceOutFrom(s, i) ==
    IF i > Len(s) THEN <<>>
    ELSE IF s[i] \in Punct /\ i < Len(s) /\ s[i + 1] \notin Whitespace
         THEN <<s[i], " ", s[i + 1]>> \o SpaceOutFrom(s, i + 2)
         ELSE <<s[i]>> \o SpaceOutFrom(s, i + 1)

\* lines 249-257
_tidy_text(s) ==
    LET s1 == CollapseFrom(s, 1, Blank, 2, <<" ">>)
        s2 == CollapseFrom(s1, 1, {"NL"}, 3, <<"NL", "NL">>)
        s3 == Halfwidth(s2)
        s4 == SqueezeFrom(s3, 1)
        s5 == CloseUpFrom(s4, 1)
        s6 == SpaceOutFrom(s5, 1)
    IN  strip(s6)

\* lines 262-264: the suffix goes behind a text that does not end with it
WithSuffix(reply) ==
    IF endswith(reply, SUFFIX) THEN reply
    ELSE rstrip(reply, RStripChars) \o <<" ">> \o SUFFIX

\* mutant: nothing is appended to an empty text
_postprocess_SuffixIfText(reply) ==
    LET t == _tidy_text(_remove_reasoning(strip(reply)))
    IN  IF t = <<>> THEN t ELSE WithSuffix(t)

\* mutant: a text of more than MaxChars characters is cut, an ellipsis behind it
_postprocess_Capped(reply) ==
    LET t == _tidy_text(_remove_reasoning(strip(reply)))
    IN  WithSuffix(IF Len(t) > MaxChars
                   THEN SubSeq(t, 1, MaxChars - 1) \o <<"ELL">> ELSE t)

\* lines 259-265
_postprocess(reply) == WithSuffix(_tidy_text(_remove_reasoning(strip(reply))))

\* the replies the post-processor is given: every text of up to MaxLen
\* characters of TextChars, every text made of up to MaxUnits pieces of
\* MarkupUnits, and the texts of SampleReplies
TextChars == {"a", " ", "NL", ".", ",", "j", "A"}
MarkupUnits == {OPEN, CLOSE, <<"<">>, <<"t", ">">>, <<"a">>}

SeqsUpTo(S, n) == UNION {[1..k -> S] : k \in 0..n}

RECURSIVE Flatten(_)
Flatten(us) == IF Len(us) = 0 THEN <<>> ELSE Head(us) \o Flatten(Tail(us))

SampleReplies ==
    {<<"a", "!", "!", "?", "a">>,
     <<"a", " ", "TAB", " ", "a", "FC", "a", "FS">>,
     <<"a", "NL", "NL", "NL", "NL", "a", " ", "!">>,
     <<"TAB", "CR", "NL">>,
     <<"?", "!", ".">>,
     OPEN \o <<"a", "NL", "a">> \o CLOSE \o <<"a", ".">> \o SUFFIX,
     <<"a">> \o OPEN \o <<"a">> \o OPEN \o <<"a">> \o CLOSE \o <<"a">> \o CLOSE \o <<"a">>,
     <<"<", "t">> \o OPEN \o <<"a">> \o CLOSE \o <<">", "a">> \o CLOSE,
     <<"a", "a", "a", "a", "a", "a", "a", "a">>}

RawReplies ==
    SeqsUpTo(TextChars, MaxLen)
    \cup {Flatten(us) : us \in SeqsUpTo(MarkupUnits, MaxUnits)}
    \cup SampleReplies

\* ---- state -------------------------------------------------------------------
VARIABLES
    scenario,       \* "serial" or "race": which deliveries the sender makes
    config_ok,      \* LINE_CHANNEL_SECRET and LINE_CHANNEL_ACCESS_TOKEN are set
    user_sessions,  \* user id -> persona key, NoSession when there is no entry
    running,        \* the handler running between two awaits, or Nobody
    request,        \* handler -> the signature header and the body it was called with
    pc,             \* handler -> "idle", "loop", "ask", "rate", "send", "done"
    response,       \* handler -> status returned for the delivery, 0 while open
    pos,            \* handler -> number of events taken from the batch
    cur,            \* handler -> the event being processed and its branch
    pending,        \* handler -> the reply whose POST is awaited
    asked,          \* handler -> provider calls made for the current event
    ask_result,     \* handler -> how that call ended: what came back, raised or not
    trace,          \* handler -> what the delivery did, in order: <<index, step>>
    post            \* a reply text on its way through _postprocess, once and again

vars == <<scenario, config_ok, user_sessions, running, request, pc, response, pos, cur, pending,
          asked, ask_result, trace, post>>

NoEvent ==
    [type |-> "", mtype |-> "", text |-> <<>>, source |-> "", user |-> "",
     cls |-> "", index |-> 0]
NoRequest == [signature |-> NoHeader, body |-> ""]
NoAsk == [outcome |-> "", raised |-> FALSE]
NoPending == [msg |-> NoMsg, guarded |-> FALSE, fallback |-> NoMsg]
NoPost == [stage |-> "off", input |-> <<>>, once |-> <<>>, twice |-> <<>>]

Active == IF scenario = "serial" THEN {"h1"} ELSE Handlers
Inbound == IF scenario = "serial" THEN Events ELSE RaceEvents
\* the race scenario has signed batches only
Headers ==
    IF scenario = "serial" THEN SignatureHeaders
    ELSE {Mac(LINE_CHANNEL_SECRET, "events_json")}

Start ==
    /\ config_ok \in BOOLEAN
    /\ user_sessions = [u \in UserIds |-> NoSession]
    /\ running = Nobody
    /\ request = [d \in Handlers |-> NoRequest]
    /\ pc = [d \in Handlers |-> "idle"]
    /\ response = [d \in Handlers |-> 0]
    /\ pos = [d \in Handlers |-> 0]
    /\ cur = [d \in Handlers |-> NoEvent]
    /\ pending = [d \in Handlers |-> NoPending]
    /\ asked = [d \in Handlers |-> <<>>]
    /\ ask_result = [d \in Handlers |-> NoAsk]
    /\ trace = [d \in Handlers |-> <<>>]

Init == scenario = "serial" /\ Start /\ post = NoPost
InitRace == scenario = "race" /\ Start /\ post = NoPost
\* the post-processor alone, given one reply text
InitPost ==
    /\ scenario = "post"
    /\ Start
    /\ config_ok
    /\ post \in {[stage |-> "raw", input |-> r, once |-> <<>>, twice |-> <<>>] :
                    r \in RawReplies}

\* the replies issued for event idx of a delivery, and its provider calls
Count(tr, idx, step) == Cardinality({i \in DOMAIN tr : tr[i] = <<idx, step>>})

\* ---- line_callback (lines 312-462) -------------------------------------------
\* The handler ends: the status goes back to the sender.
Finish(d, status) ==
    /\ pc' = [pc EXCEPT ![d] = "done"]
    /\ response' = [response EXCEPT ![d] = status]
    /\ running' = Nobody

\* An exception leaves line_callback: the framework answers 500.
Abort(d) == Finish(d, 500)

\* lines 316-328
Deliver(d, signature, body) ==
    /\ pc[d] \in {"idle", "done"}
    /\ running = Nobody
    /\ pos' = [pos EXCEPT ![d] = 0]
    /\ cur' = [cur EXCEPT ![d] = NoEvent]
    /\ pending' = [pending EXCEPT ![d] = NoPending]
    /\ asked' = [asked EXCEPT ![d] = <<>>]
    /\ ask_result' = [ask_result EXCEPT ![d] = NoAsk]
    /\ trace' = [trace EXCEPT ![d] = <<>>]
    /\ request' = [request EXCEPT ![d] = [signature |-> signature, body |-> body]]
    /\ UNCHANGED <<post, scenario, config_ok, user_sessions>>
    /\ IF ~config_ok
       THEN Finish(d, 500)
       ELSE IF signature \in {NoHeader, EmptyHeader}
               \/ ~verify_line_signature(body, signature, LINE_CHANNEL_SECRET)
       THEN Finish(d, 401)
       ELSE IF body = "not_json"
       THEN Finish(d, 400)
       ELSE IF body = "json_array"
       THEN Abort(d)
       ELSE /\ pc' = [pc EXCEPT ![d] = "loop"]
            /\ response' = [response EXCEPT ![d] = 0]
            /\ running' = d

\* lines 41-49: the fixed instruction every call carries
PROMPT_BASE == "PROMPT_BASE"

\* mutant: the persona's prompt is left out of the system message
system_prompt_BaseOnly(persona_prompt) == <<PROMPT_BASE>>

\* line 270: the system message is the fixed instruction, then the persona's
system_prompt(persona_prompt) == <<PROMPT_BASE, persona_prompt>>

\* mutant: a failed POST is sent once more
Attempts_Retry(prompt) ==
    <<[provider |-> PROVIDERS[1], prompt |-> prompt],
      [provider |-> PROVIDERS[1], prompt |-> prompt]>>

\* mutant: the call goes to a second backend as well
Attempts_Fallback(prompt) ==
    <<[provider |-> PROVIDERS[1], prompt |-> prompt],
      [provider |-> "hosted", prompt |-> prompt]>>

\* lines 286-289: one POST to the one backend for one ask_ollama call
Attempts(prompt) == <<[provider |-> PROVIDERS[1], prompt |-> prompt]>>

\* mutant: the list is walked from its end
NextIndex_Reversed(taken) == MaxEvents - taken

\* line 329: the events are taken in the order of the list
NextIndex(taken) == taken + 1

\* the handler stops at `await reply_text(...)`: the POST is on its way
IssueReply(d, idx, msg, guarded, fallback) ==
    /\ pending' = [pending EXCEPT ![d] =
                     [msg |-> msg, guarded |-> guarded, fallback |-> fallback]]
    /\ pc' = [pc EXCEPT ![d] = "send"]
    /\ running' = Nobody

\* lines 329-460, one event up to its first await
TakeEvent(d, ev) ==
    /\ pc[d] = "loop"
    /\ running = d
    /\ pos[d] < MaxEvents
    /\ LET idx == NextIndex(pos[d])
           uid == UserIdOf(ev.source)
           sess == EnsureSession(user_sessions, uid)
           text == IF ev.text = NoneText THEN <<>> ELSE ev.text
           st == DispatchText(sess, uid, text)
           here(cls) == [type |-> ev.type, mtype |-> ev.mtype, text |-> ev.text,
                         source |-> ev.source, user |-> uid, cls |-> cls,
                         index |-> idx]
           begun == Append(trace[d], <<idx, "begin">>)
       IN  /\ pos' = [pos EXCEPT ![d] = pos[d] + 1]
           /\ ask_result' = [ask_result EXCEPT ![d] = NoAsk]
           /\ UNCHANGED <<post, scenario, config_ok, request>>
           /\ IF ev.type = "message" /\ ev.mtype = "text"
              THEN IF ev.text = MissingText \/ st.effect = "raise"
                   THEN \* line 339: KeyError; line 401: ValueError
                        /\ user_sessions' = sess
                        /\ cur' = [cur EXCEPT ![d] = here("raised")]
                        /\ trace' = [trace EXCEPT ![d] = begun]
                        /\ asked' = [asked EXCEPT ![d] = <<>>]
                        /\ UNCHANGED pending
                        /\ Abort(d)
                   ELSE /\ user_sessions' = st.sess
                        /\ cur' = [cur EXCEPT ![d] = here(st.cls)]
                        /\ response' = response
                        /\ IF st.effect = "send"
                           THEN /\ IssueReply(d, idx, st.msg, st.guarded, st.fallback)
                                /\ trace' = [trace EXCEPT ![d] = Append(begun, <<idx, "reply">>)]
                                /\ asked' = [asked EXCEPT ![d] = <<>>]
                           ELSE IF st.effect = "ask"
                           THEN /\ pc' = [pc EXCEPT ![d] = "ask"]
                                /\ running' = Nobody
                                /\ asked' = [asked EXCEPT ![d] = Attempts(system_prompt(st.prompt))]
                                /\ trace' = [trace EXCEPT ![d] = Append(begun, <<idx, "ask">>)]
                                /\ UNCHANGED pending
                           ELSE /\ pc' = [pc EXCEPT ![d] = "rate"]
                                /\ running' = Nobody
                                /\ asked' = [asked EXCEPT ![d] = <<>>]
                                /\ trace' = [trace EXCEPT ![d] = begun]
                                /\ UNCHANGED pending
              ELSE /\ user_sessions' = sess
                   /\ asked' = [asked EXCEPT ![d] = <<>>]
                   /\ response' = response
                   /\ IF ev.type \in {"follow", "join"}
                      THEN /\ cur' = [cur EXCEPT ![d] = here("greeting")]
                           /\ IssueReply(d, idx, Msg("greeting", ""), FALSE, NoMsg)
                           /\ trace' = [trace EXCEPT ![d] = Append(begun, <<idx, "reply">>)]
                      ELSE \* nothing to do: the loop goes on without an await
                           /\ cur' = [cur EXCEPT ![d] = here("ignored")]
                           /\ trace' = [trace EXCEPT ![d] = begun]
                           /\ UNCHANGED <<pending, pc, running>>

\* line 462: the list is exhausted
EndOfBatch(d) ==
    /\ pc[d] = "loop"
    /\ running = d
    /\ Finish(d, 200)
    /\ UNCHANGED <<post, scenario, config_ok, request, user_sessions, pos, cur, pending, asked, ask_result, trace>>

\* lines 456-457: ask_ollama comes back, the answer is sent
OllamaResponds(d, outcome) ==
    /\ pc[d] = "ask"
    /\ running = Nobody
    /\ LET r == ask_ollama(outcome)
       IN  IF r.raised
           THEN /\ ask_result' = [ask_result EXCEPT ![d] = [outcome |-> outcome, raised |-> TRUE]]
                /\ Abort(d)
                /\ UNCHANGED <<pending, trace>>
           ELSE /\ ask_result' = [ask_result EXCEPT ![d] = [outcome |-> outcome, raised |-> FALSE]]
                /\ IssueReply(d, cur[d].index, r.text, FALSE, NoMsg)
                /\ trace' = [trace EXCEPT ![d] = Append(@, <<cur[d].index, "reply">>)]
                /\ response' = response
    /\ UNCHANGED <<post, scenario, config_ok, request, user_sessions, pos, cur, asked>>

\* lines 81-94 and 386: get_exchange_rate_text catches everything
RateResponds(d, ok) ==
    /\ pc[d] = "rate"
    /\ running = Nobody
    /\ IssueReply(d, cur[d].index,
                  Msg("exchange_rate", IF ok THEN "rates" ELSE "unavailable"), FALSE, NoMsg)
    /\ trace' = [trace EXCEPT ![d] = Append(@, <<cur[d].index, "reply">>)]
    /\ UNCHANGED <<post, scenario, config_ok, request, user_sessions, response, pos, cur, asked, ask_result>>

\* lines 178-189 and 199-216: the POST to the reply endpoint comes back
SendCompletes(d, outcome) ==
    /\ pc[d] = "send"
    /\ running = Nobody
    /\ IF outcome = "error"
       THEN IF pending[d].guarded
            THEN \* the except clause of lines 411, 423 and 448 sends its own text
                 /\ IssueReply(d, cur[d].index, pending[d].fallback, FALSE, NoMsg)
                 /\ trace' = [trace EXCEPT ![d] = Append(@, <<cur[d].index, "reply">>)]
                 /\ response' = response
            ELSE /\ Abort(d)
                 /\ UNCHANGED <<pending, trace>>
       ELSE /\ pc' = [pc EXCEPT ![d] = "loop"]
            /\ running' = d
            /\ pending' = [pending EXCEPT ![d] = NoPending]
            /\ UNCHANGED <<response, trace>>
    /\ UNCHANGED <<post, scenario, config_ok, request, user_sessions, pos, cur, asked, ask_result>>

Next ==
    \/ \E d \in Active, sig \in Headers, body \in Bodies : Deliver(d, sig, body)
    \/ \E d \in Active, ev \in Inbound : TakeEvent(d, ev)
    \/ \E d \in Active : EndOfBatch(d)
    \/ \E d \in Active, outcome \in ProviderOutcomes : OllamaResponds(d, outcome)
    \/ \E d \in Active, ok \in BOOLEAN : RateResponds(d, ok)
    \/ \E d \in Active, outcome \in SendOutcomes : SendCompletes(d, outcome)

Spec == Init /\ [][Next]_vars
SpecRace == InitRace /\ [][Next]_vars

\* ---- _postprocess applied (lines 259-265) -----------------------------------
relay_vars ==
    <<scenario, config_ok, user_sessions, running, request, pc, response, pos, cur,
      pending, asked, ask_result, trace>>

\* a reply text goes through _postprocess
Postprocess ==
    /\ post.stage = "raw"
    /\ post' = [post EXCEPT !.stage = "once", !.once = _postprocess(post.input)]
    /\ UNCHANGED relay_vars

\* what came out goes through it again
PostprocessAgain ==
    /\ post.stage = "once"
    /\ post' = [post EXCEPT !.stage = "twice", !.twice = _postprocess(post.once)]
    /\ UNCHANGED relay_vars

NextPost == Postprocess \/ PostprocessAgain

SpecPost == InitPost /\ [][NextPost]_vars

\* ===========================================================================
\* Properties
\* ===========================================================================

\* ---- what the deliveries and the texts are, read off the inputs ------------
\* the delivery d was called with fails authentication or is not JSON
BadDelivery(d) ==
    \/ request[d].signature \in {NoHeader, EmptyHeader}
    \/ request[d].signature # Mac(LINE_CHANNEL_SECRET, request[d].body)
    \/ request[d].body = "not_json"

\* the delivery passed the signature check and carries a JSON batch of events
AcceptedDelivery(d) ==
    /\ config_ok
    /\ request[d].signature = Mac(LINE_CHANNEL_SECRET, request[d].body)
    /\ request[d].body = "events_json"

\* handler d has been called and nothing of the delivery was processed
Untouched(d) ==
    /\ trace[d] = <<>>
    /\ asked[d] = <<>>
    /\ pending[d] = NoPending
    /\ pos[d] = 0

\* the step takes the next event of d's batch
Takes(d) == pos'[d] = pos[d] + 1

\* the step is a step of handler d alone
StepOf(d) == \A e \in Handlers \ {d} : pc'[e] = pc[e] /\ trace'[e] = trace[e]

\* the event d is at is a text message that carries a text
TextEvent(d) ==
    /\ cur[d].type = "message"
    /\ cur[d].mtype = "text"
    /\ cur[d].text # MissingText

\* the processing of d's current event is over (normally or by an exception)
EventOver(d) == pos[d] >= 1 /\ pc[d] \in {"loop", "done"}

Replies(d) == Count(trace[d], cur[d].index, "reply")

\* the sample texts by what they are meant to be
FreeTexts == {<<>>, <<"hello">>, NoneText}
PersonaMenuTexts == {<<"menu">>, <<"th:leuak">>}
SelectKey ==
    [t \in {<<"th:leuak", "teacher">>, <<"th:leuak", SP, "chef">>} |->
        IF t = <<"th:leuak", "teacher">> THEN "teacher" ELSE "chef"]
UnknownSelectTexts == {<<"th:leuak", "bogus">>, <<"th:leuak", "Teacher">>}

C2_AcceptedAlwaysAcknowledged ==
    \A d \in Handlers :
        pc[d] = "done" /\ AcceptedDelivery(d) => response[d] = 200

\* ---- C3 ---------------------------------------------------------------------
\* C3: for a text message event exactly one reply is issued: never more than
\* one at any time, and one when the event's processing is over.
C3_ExactlyOneReplyPerMessageEvent ==
    \A d \in Handlers :
        TextEvent(d) =>
            /\ Replies(d) <= 1
            /\ EventOver(d) => Replies(d) = 1

\* ---- C4 ---------------------------------------------------------------------
\* C4: ask_ollama never raises to its caller, whatever the provider does.
C4_AskNeverRaises ==
    \A d \in Handlers : ~ask_result[d].raised

\* ---- C5 ---------------------------------------------------------------------
ProviderFailures == {"unavailable", "rejected", "transport", "bad_json", "non_object"}

\* C5 as stated: the gateway falls back: an invocation that fails is followed,
\* before ask returns to its caller, by the invocation of a further provider.
C5_FallbackToNextProvider ==
    \A d \in Handlers :
        ask_result[d].outcome \in ProviderFailures /\ ~ask_result[d].raised =>
            Len(asked[d]) >= 2

\* C5 amended: one ask call invokes the one configured provider and no other;
\* when that invocation fails with an HTTP or transport error nothing else is
\* invoked and the call returns the apology; whatever the earlier calls did,
\* the provider invoked first is the head of the provider list.
C5_SingleProviderNoFallback ==
    \A d \in Handlers :
        /\ \A i \in DOMAIN asked[d] : asked[d][i].provider = PROVIDERS[1]
        /\ Len(asked[d]) <= Len(PROVIDERS)
        /\ ask_result[d].outcome \in {"unavailable", "rejected", "transport"} =>
               /\ ~ask_result[d].raised
               /\ Len(asked[d]) = 1
               /\ pc[d] = "send" => pending[d].msg = APOLOGY_HTTP

\* the provider failed and the apology is on its way, after an earlier success
C5_Witness ==
    /\ ask_result["h1"].outcome = "unavailable"
    /\ pc["h1"] = "send"
    /\ pending["h1"].msg = APOLOGY_HTTP
    /\ cur["h1"].index = 2
    /\ <<1, "ask">> \in {trace["h1"][i] : i \in DOMAIN trace["h1"]}

\* ---- C6 ---------------------------------------------------------------------
\* C6: the provider is invoked once for an event whose text is free text and
\* never for any other event; a failed call is not repeated.
C6_ProviderOncePerFreeText ==
    \A d \in Handlers :
        LET free == TextEvent(d) /\ cur[d].text \in FreeTexts
        IN  /\ Len(asked[d]) = IF free THEN 1 ELSE 0
            /\ Count(trace[d], cur[d].index, "ask") = Len(asked[d])

\* a provider call failed and its event is over with one call made
C6_Witness ==
    /\ cur["h1"].text = <<"hello">>
    /\ ask_result["h1"].outcome = "transport"
    /\ pc["h1"] = "loop"
    /\ Len(asked["h1"]) = 1

\* ---- C7 ---------------------------------------------------------------------
\* C7: within a delivery the events are taken in the order received, one at a
\* time: what the delivery did for event i (session, provider call, reply)
\* comes before everything it did for an event j > i.
C7_EventsInOrder ==
    \A d \in Handlers :
        LET tr == trace[d]
            begins == SelectSeq(tr, LAMBDA e : e[2] = "begin")
        IN  /\ \A i, j \in DOMAIN tr : i < j => tr[i][1] <= tr[j][1]
            /\ \A i \in DOMAIN begins : begins[i][1] = i
            /\ Len(begins) = pos[d]
            /\ \A i \in DOMAIN tr :
                 tr[i][2] # "begin" =>
                     \E k \in 1..(i - 1) : tr[k] = <<tr[i][1], "begin">>

\* the second event of a batch is being answered after the first one was
C7_Witness ==
    /\ pc["h1"] = "send"
    /\ cur["h1"].index = 2
    /\ Count(trace["h1"], 1, "reply") = 1
    /\ Count(trace["h1"], 2, "reply") = 1

\* ---- C8 ---------------------------------------------------------------------
\* C8: a text that selects a known persona sets the sender's persona to that
\* key, sends the confirmation, calls no provider and leaves every other
\* user's session as it was.
C8_SelectKnownPersona ==
    [][\A d \in Handlers :
        Takes(d) /\ TextEvent(d)' /\ cur'[d].text \in DOMAIN SelectKey =>
            LET key == SelectKey[cur'[d].text]
                u == UserIdOf(cur'[d].source)
            IN  /\ user_sessions'[u] = key
                /\ \A v \in UserIds \ {u} : user_sessions'[v] = user_sessions[v]
                /\ pc'[d] = "send"
                /\ pending'[d].msg = Msg("persona_changed", key)
                /\ asked'[d] = <<>>]_vars

\* U1 has just chosen the teacher while another user holds another persona
C8_Witness ==
    /\ cur["h1"].text = <<"th:leuak", "teacher">>
    /\ cur["h1"].source = "U1"
    /\ pc["h1"] = "send"
    /\ user_sessions["U1"] = "teacher"
    /\ user_sessions["anonymous"] = "chef"

\* ---- C9 ---------------------------------------------------------------------
\* C9: a selection text with an unknown key changes no persona (the sender's
\* session, if new, is the default one), sends the unknown-persona message and
\* calls no provider.
C9_SelectUnknownPersona ==
    [][\A d \in Handlers :
        Takes(d) /\ TextEvent(d)' /\ cur'[d].text \in UnknownSelectTexts =>
            LET u == UserIdOf(cur'[d].source)
            IN  /\ \A v \in UserIds :
                     user_sessions'[v] =
                         IF v = u /\ user_sessions[v] = NoSession
                         THEN DefaultPersona ELSE user_sessions[v]
                /\ pc'[d] = "send"
                /\ pending'[d].msg = Msg("persona_unknown", "")
                /\ asked'[d] = <<>>]_vars

\* an unknown key was refused to a user who keeps the persona chosen before
C9_Witness ==
    /\ cur["h1"].text = <<"th:leuak", "Teacher">>
    /\ cur["h1"].source = "U1"
    /\ pc["h1"] = "send"
    /\ pending["h1"].msg = Msg("persona_unknown", "")
    /\ user_sessions["U1"] = "chef"

\* ---- C10 --------------------------------------------------------------------
\* C10: the persona of an existing session changes only in the step that takes
\* a selection text with a known key from that session's user; the persona
\* menu tokens yield the persona list whatever the current persona is.
C10_PersonaChangedOnlyBySelection ==
    [][/\ \A u \in UserIds :
            user_sessions[u] # NoSession /\ user_sessions'[u] # user_sessions[u] =>
                \E d \in Handlers :
                    /\ Takes(d)
                    /\ TextEvent(d)'
                    /\ cur'[d].text \in DOMAIN SelectKey
                    /\ UserIdOf(cur'[d].source) = u
                    /\ user_sessions'[u] = SelectKey[cur'[d].text]
       /\ \A d \in Handlers :
            Takes(d) /\ TextEvent(d)' /\ cur'[d].text \in PersonaMenuTexts =>
                /\ pc'[d] = "send"
                /\ pending'[d].msg = Msg("persona_list", "")]_vars

\* the persona menu is on its way to a user whose persona is not the default
C10_Witness ==
    /\ cur["h1"].text = <<"menu">>
    /\ cur["h1"].source = "U1"
    /\ pc["h1"] = "send"
    /\ pending["h1"].msg = Msg("persona_list", "")
    /\ user_sessions["U1"] = "teacher"

\* ---- C11 --------------------------------------------------------------------
\* the persona a free text of user u is answered with, given the sessions
\* before the event: the stored one, the default when U has no session yet
PersonaBefore(u) ==
    IF user_sessions[u] = NoSession THEN DefaultPersona ELSE user_sessions[u]

\* C11: a selection of K by U stores K for U, nothing but a selection by U
\* changes what is stored for U, and every free text of U calls the provider
\* once with the fixed instruction followed by the prompt of the persona
\* stored for U, whatever events came in between.
C11_FreeTextUsesSelectedPersona ==
    [][/\ \A d \in Handlers :
            Takes(d) /\ TextEvent(d)' /\ cur'[d].text \in DOMAIN SelectKey =>
                user_sessions'[UserIdOf(cur'[d].source)] = SelectKey[cur'[d].text]
       /\ \A d \in Handlers :
            Takes(d) /\ ~(TextEvent(d)' /\ cur'[d].text \in DOMAIN SelectKey) =>
                \A u \in UserIds : PersonaBefore(u)' = PersonaBefore(u)
       /\ (\A d \in Handlers : ~Takes(d)) => user_sessions' = user_sessions
       /\ \A d \in Handlers :
            Takes(d) /\ TextEvent(d)' /\ cur'[d].text \in FreeTexts =>
                LET k == PersonaBefore(UserIdOf(cur'[d].source))
                IN  /\ pc'[d] = "ask"
                    /\ asked'[d] = <<[provider |-> PROVIDERS[1],
                                      prompt |-> <<PROMPT_BASE, SYSTEM_PROMPTS[k].prompt>>]>>]_vars

\* U1 chose teacher, a sender without user id chose chef, and a later free
\* text of U1 is with the provider under the teacher prompt
C11_Witness ==
    /\ user_sessions["U1"] = "teacher"
    /\ user_sessions["anonymous"] = "chef"
    /\ cur["h1"].text = <<"hello">>
    /\ cur["h1"].source = "U1"
    /\ pc["h1"] = "ask"
    /\ asked["h1"] = <<[provider |-> PROVIDERS[1], prompt |-> <<PROMPT_BASE, "teacher">>]>>

\* ---- C12 --------------------------------------------------------------------
\* C12: a follow or join event is answered by one greeting reply and by no
\* provider call; taking it creates the sender's session with the default
\* persona when there is none and changes no persona that is stored.
C12_GreetingOnFollowOrJoin ==
    /\ [](\A d \in Handlers :
            cur[d].type \in {"follow", "join"} =>
                /\ Replies(d) = 1
                /\ Count(trace[d], cur[d].index, "ask") = 0
                /\ asked[d] = <<>>
                /\ pc[d] = "send" => pending[d].msg = Msg("greeting", ""))
    /\ [][\A d \in Handlers :
            Takes(d) /\ cur'[d].type \in {"follow", "join"} =>
                /\ pc'[d] = "send"
                /\ \A u \in UserIds :
                      user_sessions'[u] =
                          IF u = UserIdOf(cur'[d].source) THEN PersonaBefore(u)
                          ELSE user_sessions[u]]_vars

\* the greeting for a join from a group is on its way as the second event of
\* a batch: the group's session holds the default, U1's chef persona stands
C12_Witness ==
    /\ cur["h1"].type = "join"
    /\ cur["h1"].source = "G1"
    /\ cur["h1"].index = 2
    /\ pc["h1"] = "send"
    /\ pending["h1"].msg = Msg("greeting", "")
    /\ trace["h1"] = <<<<1, "begin">>, <<1, "reply">>, <<2, "begin">>, <<2, "reply">>>>
    /\ user_sessions = [u \in UserIds |-> IF u = "U1" THEN "chef" ELSE DefaultPersona]

\* ---- C13 --------------------------------------------------------------------
\* the step takes a selection of a known persona sent by user u
SelectionBy(d, u) ==
    /\ Takes(d)
    /\ TextEvent(d)'
    /\ cur'[d].text \in DOMAIN SelectKey
    /\ UserIdOf(cur'[d].source) = u

\* C13: with two deliveries interleaved at their awaits, a user's entry, once
\* there, is never dropped or made anew: a step that is not a selection by
\* that user leaves a stored persona as it is, whichever handler takes it, and
\* an entry appears only in the step that takes an event of that user.
C13_SessionCreationAtomic ==
    [][\A u \in UserIds :
          /\ user_sessions[u] # NoSession =>
                /\ user_sessions'[u] # NoSession
                /\ (\A d \in Handlers : ~SelectionBy(d, u)) =>
                      user_sessions'[u] = user_sessions[u]
          /\ user_sessions[u] = NoSession /\ user_sessions'[u] # NoSession =>
                \E d \in Handlers :
                    /\ Takes(d)
                    /\ StepOf(d)
                    /\ UserIdOf(cur'[d].source) = u
                    /\ user_sessions'[u] =
                          IF SelectionBy(d, u) THEN SelectKey[cur'[d].text]
                          ELSE DefaultPersona]_vars

\* handler h1 waits for the send of its answer to U1's selection of teacher
\* while handler h2, having taken U1's follow after it, waits for the send of
\* the greeting: the session h2 looked up still holds teacher
C13_Witness ==
    /\ scenario = "race"
    /\ pc["h1"] = "send"
    /\ cur["h1"].text = <<"th:leuak", "teacher">>
    /\ trace["h1"] = <<<<1, "begin">>, <<1, "reply">>>>
    /\ pc["h2"] = "send"
    /\ cur["h2"].type = "follow"
    /\ cur["h2"].user = "U1"
    /\ trace["h2"] = <<<<1, "begin">>, <<1, "reply">>, <<2, "begin">>, <<2, "reply">>>>
    /\ cur["h2"].index = 2
    /\ user_sessions["U1"] = "teacher"

\* ---- C14 --------------------------------------------------------------------
\* the reply given is empty or all white space, all punctuation, or nothing
\* but reasoning segments
Degenerate(r) ==
    \/ \A i \in DOMAIN r : r[i] \in Whitespace \cup Punct
    \/ r \in {OPEN \o CLOSE, OPEN \o <<"a">> \o CLOSE,
              OPEN \o CLOSE \o OPEN \o <<"a">> \o CLOSE}

\* C14: whatever text goes into the post-processor, what comes out is not
\* empty and ends with the suffix, the first time and the second.
C14_OutputEndsWithSuffix ==
    /\ post.stage \in {"once", "twice"} =>
          post.once # <<>> /\ endswith(post.once, SUFFIX)
    /\ post.stage = "twice" =>
          post.twice # <<>> /\ endswith(post.twice, SUFFIX)

\* a reply of nothing but one reasoning segment came out as the suffix alone
C14_Witness ==
    /\ post.stage = "once"
    /\ post.input = OPEN \o <<"a">> \o CLOSE
    /\ Degenerate(post.input)
    /\ post.once = <<" ">> \o SUFFIX

\* ---- C15 --------------------------------------------------------------------
\* C15: the post-processor applied to its own output gives that output again.
C15_Idempotent == post.stage = "twice" => post.twice = post.once

\* ---- C16 --------------------------------------------------------------------
\* the reply given is letters only, at least one
LettersOnly(r) == r # <<>> /\ \A i \in DOMAIN r : r[i] = "a"

\* C16 as stated: the output is at most MaxChars + len(suffix) + 2 long.
C16_LengthCapped ==
    post.stage \in {"once", "twice"} => Len(post.once) <= MaxChars + Len(SUFFIX) + 2

\* C16 amended: there is no cap and nothing is cut.  A reply of letters comes
\* out whole, however long, with a blank and the suffix behind it; any output
\* is at most the input, one blank for every two of its characters (line
\* 257), one blank more and the suffix long.
C16_LengthFollowsInput ==
    post.stage \in {"once", "twice"} =>
        /\ Len(post.once) <= Len(post.input) + (Len(post.input) \div 2) + 1 + Len(SUFFIX)
        /\ LettersOnly(post.input) => post.once = post.input \o <<" ">> \o SUFFIX
        /\ \A i \in DOMAIN post.once : post.once[i] # "ELL"

\* a reply of eight letters came out eleven characters long
C16_Witness ==
    /\ post.stage = "once"
    /\ post.input = <<"a", "a", "a", "a", "a", "a", "a", "a">>
    /\ Len(post.input) > MaxChars + 1
    /\ Len(post.once) = Len(post.input) + 1 + Len(SUFFIX)
    /\ Len(post.once) > MaxChars + Len(SUFFIX) + 2

\* ---- C17 --------------------------------------------------------------------
\* the text is a tool command: password, BMI, conversion, QR, colour or loan
ToolCommand(t) ==
    /\ t # <<>>
    /\ t[1] \in {"th:password", "BMI", "th:convert", "QR", "th:loan"} \cup HashTokens

\* C17: an event whose text is a tool command is answered, whatever its
\* arguments are: its processing never ends without a reply.
C17_ToolCommandAlwaysAnswered ==
    \A d \in Handlers :
        TextEvent(d) /\ ToolCommand(cur[d].text) => Replies(d) >= 1

\* ---- C18 --------------------------------------------------------------------
\* C18: every session holds a key of the persona catalog, so that the lookup
\* for a stored session gives the prompt of the stored key itself.
C18_StoredPersonaInCatalog ==
    \A u \in UserIds :
        user_sessions[u] # NoSession =>
            /\ user_sessions[u] \in DOMAIN SYSTEM_PROMPTS
            /\ get_current_system_info(user_sessions, u) = SYSTEM_PROMPTS[user_sessions[u]]
            /\ user_sessions[u] # DefaultPersona =>
                  get_current_system_info(user_sessions, u) # SYSTEM_PROMPTS[DefaultPersona]

\* a selection of an unknown key was answered and the sessions hold catalog
\* keys: the default one made at that event and a chosen one
C18_Witness ==
    /\ cur["h1"].text = <<"th:leuak", "bogus">>
    /\ cur["h1"].source = "G1"
    /\ pc["h1"] = "send"
    /\ user_sessions["anonymous"] = DefaultPersona
    /\ user_sessions["U1"] = "chef"

\* ---- C19 --------------------------------------------------------------------
\* the persona a free text from the source would be answered with
PersonaUsedFor(source) == get_current_system_info(user_sessions, UserIdOf(source))

\* C19: taking a selection that came through one source leaves the persona
\* used for free text from every other source as it was.
C19_PersonaIsolatedPerSource ==
    [][\A d \in Handlers :
          Takes(d) /\ TextEvent(d)' /\ cur'[d].text \in DOMAIN SelectKey =>
              \A other \in Sources \ {cur'[d].source} :
                  PersonaUsedFor(other)' = PersonaUsedFor(other)]_vars

\* ---- C20 --------------------------------------------------------------------
\* the text holds an open marker with a close marker somewhere behind it
HasSegment(s) ==
    \E i \in 1..Len(s) : At(s, i, OPEN) /\ FindClose(s, i + Len(OPEN)) # 0

\* C20: what the post-processor returns holds no reasoning segment, and a
\* text without a close marker loses nothing to the removal.
C20_NoReasoningSegmentInOutput ==
    post.stage \in {"once", "twice"} =>
        /\ ~HasSegment(post.once)
        /\ FindClose(post.input, 1) = 0 =>
              post.once = WithSuffix(_tidy_text(strip(post.input)))

====
